---- MODULE Spec2Model ----
(***************************************************************************)
(* Model of the spreadsheet extraction scripts of taxdata:                 *)
(*   puf_stage1/cbo_chained_cpiu.py  (CBO chained CPI-U extraction)        *)
(*   puf_stage1/updatesoi.py         (SOI table 1.4 wage buckets)          *)
(*                                                                         *)
(* Strings that the code compares character by character (labels) are      *)
(* sequences of one-character strings.  A spreadsheet cell is a record     *)
(* [kind, n, s]: an empty cell (NaN), a number n, or a string s.  Numbers  *)
(* of the CBO sheet are integers in millionths, so that formatting to six  *)
(* decimal places is exact.                                                *)
(***************************************************************************)
EXTENDS Integers, Sequences, FiniteSets, TLC

VARIABLES
    CBO_YEAR,   \* module-level dict CBO_YEAR (year/column of first and last year)
    Policy,     \* taxcalc.Policy year constants read by read_check_spreadsheet
    args,       \* the CBOFILENAME command-line argument, by what main tests of it
    disk,       \* what pandas.read_excel finds: [readable, frame]
    data,       \* table 1.4 as read or passed on: the cells of its wage column
    call,       \* the function that was called, with its arguments
    ret,        \* how the call ended: value returned or exception raised
    stderr,     \* messages written to standard error, in order
    stdout,     \* lines written to standard output, in order
    trace       \* the calls the function made, in order

vars == <<CBO_YEAR, Policy, args, disk, data, call, ret, stderr, stdout, trace>>

-----------------------------------------------------------------------------
(* Bounds of the model                                                     *)

\* schemas tried by check_cbo_year lie within Spread years/columns of the configured ones
Spread == 2
\* at most MaxFilled label cells of one row are non-empty
MaxFilled == 2
\* wage amounts of table 1.4 are 0..MaxWage
MaxWage == 2
\* cbo_value is asked for years up to YearMargin outside the years of CBO_YEAR
YearMargin == 1

-----------------------------------------------------------------------------
(* Strings                                                                 *)

\* "Tax Year"
LABEL_TAX_YEAR ==
    <<"T","a","x"," ","Y","e","a","r">>
\* "Chained consumer price index"
LABEL_C_CPIU ==
    <<"C","h","a","i","n","e","d"," ","c","o","n","s","u","m","e","r"," ",
      "p","r","i","c","e"," ","i","n","d","e","x">>
\* "nan": what str() gives for an empty (NaN) cell
NAN_STR ==
    <<"n","a","n">>
\* "Tax year"
FoundTaxYearLower ==
    <<"T","a","x"," ","y","e","a","r">>
\* "Chained consumer price index (C-CPI-U)"
FoundLonger ==
    <<"C","h","a","i","n","e","d"," ","c","o","n","s","u","m","e","r"," ",
      "p","r","i","c","e"," ","i","n","d","e","x"," ","(","C","-","C","P",
      "I","-","U",")">>
\* "Chained CPI-U index"
FoundNearMiss ==
    <<"C","h","a","i","n","e","d"," ","C","P","I","-","U"," ","i","n","d",
      "e","x">>
\* "Chained Consumer Price Index"
FoundOtherCase ==
    <<"C","h","a","i","n","e","d"," ","C","o","n","s","u","m","e","r"," ",
      "P","r","i","c","e"," ","I","n","d","e","x">>
\* "Index: Chained consumer price index"
FoundInside ==
    <<"I","n","d","e","x",":"," ","C","h","a","i","n","e","d"," ","c","o",
      "n","s","u","m","e","r"," ","p","r","i","c","e"," ","i","n","d","e",
      "x">>
\* "Chained consumer price"
FoundShorter ==
    <<"C","h","a","i","n","e","d"," ","c","o","n","s","u","m","e","r"," ",
      "p","r","i","c","e">>

Alphabet ==
    <<"A","B","C","D","E","F","G","H","I","J","K","L","M",
      "N","O","P","Q","R","S","T","U","V","W","X","Y","Z">>

\* ord() of a capital letter
Ord(c) == 64 + (CHOOSE i \in 1..Len(Alphabet) : Alphabet[i] = c)

\* chr() of the code of a capital letter
Chr(n) == Alphabet[n - 64]

DigitChars == <<"0","1","2","3","4","5","6","7","8","9">>

RECURSIVE DecStr(_)
\* str() of a non-negative integer
DecStr(n) ==
    IF n < 10 THEN <<DigitChars[n + 1]>>
    ELSE Append(DecStr(n \div 10), DigitChars[(n % 10) + 1])

\* str.startswith
StartsWith(s, prefix) ==
    /\ Len(prefix) <= Len(s)
    /\ \A i \in 1..Len(prefix) : s[i] = prefix[i]

-----------------------------------------------------------------------------
(* Cells and frames                                                        *)

NaN == [kind |-> "nan", n |-> 0, s |-> <<>>]
NumCell(n) == [kind |-> "num", n |-> n, s |-> <<>>]
StrCell(s) == [kind |-> "str", n |-> 0, s |-> s]

\* str(obj) of a cell
PyStr(cell) ==
    CASE cell.kind = "nan" -> NAN_STR
      [] cell.kind = "num" -> DecStr(cell.n)
      [] OTHER -> cell.s

-----------------------------------------------------------------------------
(* Expected spreadsheet structure                                          *)

CBO_STR_COLS == <<0, 1, 2, 3>>

CBO_YEAR_CONFIGURED ==
    [first |-> [year |-> 2021, col |-> "E"],
     last  |-> [year |-> 2034, col |-> "R"]]

CBO_ROWS ==
    [year   |-> [row |-> 8,   label |-> LABEL_TAX_YEAR],
     c_cpiu |-> [row |-> 158, label |-> LABEL_C_CPIU]]

\* the keys of CBO_ROWS in the order the dict lists them
CBO_ROW_NAMES == <<"year", "c_cpiu">>

rindex(row_number) == row_number - 1

cindex(capital_letter) == Ord(capital_letter) - Ord("A")

-----------------------------------------------------------------------------
(* Return values                                                           *)

NoRet == [how |-> "none", what |-> "", code |-> 0, cell |-> NaN, list |-> <<>>]
RetNone == [NoRet EXCEPT !.how = "return", !.what = "None"]
RetInt(c) == [NoRet EXCEPT !.how = "return", !.what = "int", !.code = c]
RetFrame == [NoRet EXCEPT !.how = "return", !.what = "DataFrame"]
RetCell(c) == [NoRet EXCEPT !.how = "return", !.what = "cell", !.cell = c]
RetList(l) == [NoRet EXCEPT !.how = "return", !.what = "list", !.list = l]
Raise(exc) == [NoRet EXCEPT !.how = "raise", !.what = exc]

NoCall == [fn |-> "", name |-> "", year |-> 0, indicies |-> <<>>]

\* a line on standard error: its prefix and text, and for a label mismatch the
\* field, the expected label and the label found
Msg(tag, text) ==
    [tag |-> tag, text |-> text, cname |-> "", elabel |-> <<>>, alabel |-> <<>>]

\* a step of a function: the call it makes, and for read_cbo_label the field
\* and what the call gave
Step(op) == [op |-> op, cname |-> "", status |-> "", label |-> <<>>]

-----------------------------------------------------------------------------
(* check_cbo_year                                                          *)

\* a plausible slip: the column difference taken as a count of columns
check_cbo_year_count(cbo_year) ==
    LET ydiff == cbo_year.last.year - cbo_year.first.year
        cdiff == cindex(cbo_year.last.col) - cindex(cbo_year.first.col) + 1
    IN  IF ydiff # cdiff
        THEN [code |-> 1,
              stderr |-> <<Msg("STRUCT", "CBO_YEAR contents are inconsistent")>>]
        ELSE [code |-> 0, stderr |-> <<>>]

check_cbo_year(cbo_year) ==
    LET ydiff == cbo_year.last.year - cbo_year.first.year
        cdiff == cindex(cbo_year.last.col) - cindex(cbo_year.first.col)
    IN  IF ydiff # cdiff
        THEN [code |-> 1,
              stderr |-> <<Msg("STRUCT", "CBO_YEAR contents are inconsistent")>>]
        ELSE [code |-> 0, stderr |-> <<>>]

\* values of taxcalc.Policy.LAST_KNOWN_YEAR and LAST_BUDGET_YEAR that pass the
\* checks of read_check_spreadsheet under the configured CBO_YEAR
PolicyOk == [LAST_KNOWN_YEAR |-> 2025, LAST_BUDGET_YEAR |-> 2034]

IdleArgs == [empty |-> FALSE, xlsx |-> TRUE, exists |-> TRUE]
IdleData == <<>>
IdleDisk == [readable |-> FALSE, frame |-> <<>>]

\* the schemas check_cbo_year is tried on
YearSchemas ==
    { [first |-> [year |-> fy, col |-> Alphabet[fc]],
       last  |-> [year |-> ly, col |-> Alphabet[lc]]] :
        fy \in 2021..(2021 + Spread), ly \in (2034 - Spread)..2034,
        fc \in 5..(5 + Spread), lc \in (18 - Spread)..18 }

InitCboYear ==
    /\ CBO_YEAR \in YearSchemas
    /\ Policy = PolicyOk
    /\ args = IdleArgs
    /\ disk = IdleDisk
    /\ data = IdleData
    /\ call = NoCall
    /\ ret = NoRet
    /\ stderr = <<>>
    /\ stdout = <<>>
    /\ trace = <<>>

CallCheckCboYear ==
    /\ call = NoCall
    /\ LET r == check_cbo_year(CBO_YEAR)
       IN  /\ ret' = RetInt(r.code)
           /\ stderr' = r.stderr
    /\ call' = [NoCall EXCEPT !.fn = "check_cbo_year"]
    /\ UNCHANGED <<CBO_YEAR, Policy, args, disk, data, stdout, trace>>

NextCboYear == CallCheckCboYear

SpecCboYear == InitCboYear /\ [][NextCboYear]_vars

\* walking k letters on from column c1 arrives at column c2
ColumnsApart(c1, c2, k) ==
    \E i \in 1..Len(Alphabet) :
        /\ Alphabet[i] = c1
        /\ i + k \in 1..Len(Alphabet)
        /\ Alphabet[i + k] = c2

\* C3: check_cbo_year returns 0 exactly when lastYear - firstYear equals
\* columnIndex(lastColumn) - columnIndex(firstColumn), and 1 otherwise; with
\* 2021 at E and 2034 as last year it returns 0 for last column R and 1 for Q.
C3_CheckCboYear ==
    call.fn = "check_cbo_year" =>
        /\ ret.how = "return" /\ ret.what = "int" /\ ret.code \in {0, 1}
        /\ (ret.code = 0) <=>
             ColumnsApart(CBO_YEAR.first.col, CBO_YEAR.last.col,
                          CBO_YEAR.last.year - CBO_YEAR.first.year)
        /\ (CBO_YEAR.first = [year |-> 2021, col |-> "E"] /\ CBO_YEAR.last.year = 2034
              /\ CBO_YEAR.last.col = "R") => ret.code = 0
        /\ (CBO_YEAR.first = [year |-> 2021, col |-> "E"] /\ CBO_YEAR.last.year = 2034
              /\ CBO_YEAR.last.col = "Q") => ret.code = 1

C3_Witness ==
    /\ call.fn = "check_cbo_year"
    /\ CBO_YEAR.first = [year |-> 2021, col |-> "E"]
    /\ CBO_YEAR.last = [year |-> 2034, col |-> "Q"]
    /\ ret.code = 1

-----------------------------------------------------------------------------
(* Frames read from the CBO spreadsheet                                    *)

\* A frame maps the 0-based indexes of the rows it holds to rows of cells; of
\* the rows only those the script looks at are kept.  A row maps the 0-based
\* column indexes A..R to cells.
LabelCols == {CBO_STR_COLS[k] : k \in 1..Len(CBO_STR_COLS)}
ValueCols == cindex(CBO_YEAR_CONFIGURED.first.col)..cindex(CBO_YEAR_CONFIGURED.last.col)

\* the chained CPI-U values of the February 2024 spreadsheet, in millionths
CPIU_2024 ==
    <<144814090, 149063510, 159840000, 168474670, 172770430, 176567340,
      180230100, 183738130, 187305920, 190989090, 194765530, 198642940,
      202612840, 206669280>>

\* a row with the given label cells (columns A..D) and value cells (E..R)
MkRow(labels, values) ==
    [c \in LabelCols \cup ValueCols |->
        IF c \in LabelCols THEN labels[c + 1]
        ELSE values[c - cindex(CBO_YEAR_CONFIGURED.first.col) + 1]]

YearValues ==
    [k \in 1..Len(CPIU_2024) |-> NumCell(CBO_YEAR_CONFIGURED.first.year + k - 1)]

CpiuValues == [k \in 1..Len(CPIU_2024) |-> NumCell(CPIU_2024[k])]

\* label cells of one row, at most MaxFilled of them not empty
LabelRows(cells) ==
    { r \in [1..Len(CBO_STR_COLS) -> cells \cup {NaN}] :
        Cardinality({k \in 1..Len(CBO_STR_COLS) : r[k] # NaN}) <= MaxFilled }

YearLabelCells == {StrCell(LABEL_TAX_YEAR), StrCell(FoundTaxYearLower)}

CpiuLabelCells ==
    {StrCell(LABEL_C_CPIU), StrCell(FoundLonger), StrCell(FoundNearMiss),
     StrCell(FoundOtherCase), StrCell(FoundInside), StrCell(FoundShorter),
     StrCell(NAN_STR), NumCell(CBO_ROWS.c_cpiu.row)}

\* frames with both configured rows, with only the first, and with none
FullFrames(yearRows, cpiuRows, cpiuValues) ==
    { (rindex(CBO_ROWS.year.row) :> MkRow(yl, YearValues))
        @@ (rindex(CBO_ROWS.c_cpiu.row) :> MkRow(cl, cv)) :
        yl \in yearRows, cl \in cpiuRows, cv \in cpiuValues }

ShortFrames(yearRows) ==
    { (rindex(CBO_ROWS.year.row) :> MkRow(yl, YearValues)) : yl \in yearRows }
    \cup {<<>>}

-----------------------------------------------------------------------------
(* read_cbo_label                                                          *)

\* cbolabel: for each label column the list of str() of its cells
CboLabel(cbodf) ==
    [col \in LabelCols |-> [ridx \in DOMAIN cbodf |-> PyStr(cbodf[ridx][col])]]

LabelStr(label) == [status |-> "str", label |-> label]
LabelNone == [status |-> "None", label |-> <<>>]
LabelIndexError == [status |-> "IndexError", label |-> <<>>]

RECURSIVE read_cbo_label_scan(_, _, _)
\* the for loop of read_cbo_label from the k-th label column on
read_cbo_label_scan(cbolabel, ridx, k) ==
    IF k > Len(CBO_STR_COLS) THEN LabelNone
    ELSE LET col == CBO_STR_COLS[k]
         IN  IF ridx \notin DOMAIN cbolabel[col] THEN LabelIndexError
             ELSE LET label == cbolabel[col][ridx]
                  IN  IF label # NAN_STR THEN LabelStr(label)
                      ELSE read_cbo_label_scan(cbolabel, ridx, k + 1)

RECURSIVE read_cbo_label_last(_, _, _, _)
\* a plausible slip: the loop keeps the label of the last non-empty column
read_cbo_label_last(cbolabel, ridx, k, kept) ==
    IF k > Len(CBO_STR_COLS) THEN kept
    ELSE LET col == CBO_STR_COLS[k]
         IN  IF ridx \notin DOMAIN cbolabel[col] THEN LabelIndexError
             ELSE LET label == cbolabel[col][ridx]
                  IN  read_cbo_label_last(cbolabel, ridx, k + 1,
                          IF label # NAN_STR THEN LabelStr(label) ELSE kept)

read_cbo_label_keep_last(cbolabel, row) ==
    read_cbo_label_last(cbolabel, rindex(row), 1, LabelNone)

read_cbo_label(cbolabel, row) ==
    read_cbo_label_scan(cbolabel, rindex(row), 1)

-----------------------------------------------------------------------------
(* read_check_spreadsheet                                                  *)

\* a plausible slip: the expected label looked for anywhere in the found one
label_found_anywhere(alabel, elabel) ==
    \E k \in 0..Len(alabel) :
        /\ k + Len(elabel) <= Len(alabel)
        /\ \A i \in 1..Len(elabel) : alabel[k + i] = elabel[i]

\* alabel.startswith(elabel)
label_matches(alabel, elabel) == StartsWith(alabel, elabel)

\* the step and the message of one field of CBO_ROWS
LabelStep(cname, found) ==
    [op |-> "read_cbo_label", cname |-> cname,
     status |-> found.status, label |-> found.label]

MismatchMsg(cname, elabel, alabel) ==
    [tag |-> "READ", text |-> "for {cname} expected label is {elabel} but found {alabel}",
     cname |-> cname, elabel |-> elabel, alabel |-> alabel]

RECURSIVE check_rows(_, _, _)
\* the loop over CBO_ROWS from its k-th entry on, after the steps in done
check_rows(cbolabel, k, done) ==
    IF k > Len(CBO_ROW_NAMES)
    THEN [ret |-> RetFrame, stderr |-> <<>>, trace |-> done]
    ELSE LET cname == CBO_ROW_NAMES[k]
             cdict == CBO_ROWS[cname]
             elabel == cdict.label
             found == read_cbo_label(cbolabel, cdict.row)
             steps == Append(done, LabelStep(cname, found))
         IN  CASE found.status = "IndexError" ->
                    [ret |-> Raise("IndexError"), stderr |-> <<>>, trace |-> steps]
               [] found.status = "None" ->
                    [ret |-> Raise("AttributeError"), stderr |-> <<>>, trace |-> steps]
               [] OTHER ->
                    IF ~label_matches(found.label, elabel)
                    THEN [ret |-> RetNone,
                          stderr |-> <<MismatchMsg(cname, elabel, found.label)>>,
                          trace |-> steps]
                    ELSE check_rows(cbolabel, k + 1, steps)

\* the two checks of taxcalc.Policy constants: the messages they write
policy_year_msgs(cbo_year, policy) ==
    LET lky == policy.LAST_KNOWN_YEAR
        lby == policy.LAST_BUDGET_YEAR
        m1 == IF lky \notin (cbo_year.first.year + 1)..(cbo_year.last.year - 1)
              THEN <<Msg("STRUCT", "Policy.LAST_KNOWN_YEAR={lky} inconsistent with CBO_YEAR info")>>
              ELSE <<>>
        m2 == IF lby \notin (cbo_year.first.year + 2)..cbo_year.last.year
              THEN <<Msg("STRUCT", "Policy.LAST_BUDGET_YEAR={lby} inconsistent with CBO_YEAR info")>>
              ELSE <<>>
    IN  m1 \o m2

\* a plausible slip: the spreadsheet read first, the structure data checked after
read_check_spreadsheet_read_first(cbo_year, policy, dsk) ==
    LET yr == check_cbo_year(cbo_year)
        pm == policy_year_msgs(cbo_year, policy)
        t1 == <<Step("read_excel")>>
        t2 == <<Step("read_excel"), Step("check_cbo_year")>>
    IN  IF ~dsk.readable
        THEN [ret |-> RetNone,
              stderr |-> <<Msg("READ", "could not read sheet in {fname} into a DataFrame")>>,
              trace |-> t1]
        ELSE IF yr.code # 0
        THEN [ret |-> RetNone, stderr |-> yr.stderr, trace |-> t2]
        ELSE IF pm # <<>>
        THEN [ret |-> RetNone, stderr |-> pm, trace |-> t2]
        ELSE check_rows(CboLabel(dsk.frame), 1, t2)

read_check_spreadsheet(cbo_year, policy, dsk) ==
    LET yr == check_cbo_year(cbo_year)
        pm == policy_year_msgs(cbo_year, policy)
        t1 == <<Step("check_cbo_year")>>
        t2 == <<Step("check_cbo_year"), Step("read_excel")>>
    IN  IF yr.code # 0
        THEN [ret |-> RetNone, stderr |-> yr.stderr, trace |-> t1]
        ELSE IF pm # <<>>
        THEN [ret |-> RetNone, stderr |-> pm, trace |-> t1]
        ELSE IF ~dsk.readable
        THEN [ret |-> RetNone,
              stderr |-> <<Msg("READ", "could not read sheet in {fname} into a DataFrame")>>,
              trace |-> t2]
        ELSE check_rows(CboLabel(dsk.frame), 1, t2)

\* CBO_YEAR as configured, and with the last column one letter short
SheetSchemas ==
    {CBO_YEAR_CONFIGURED, [CBO_YEAR_CONFIGURED EXCEPT !.last.col = "Q"]}

\* Policy constants inside and outside the ranges read_check_spreadsheet allows
SheetPolicies ==
    { [LAST_KNOWN_YEAR |-> lky, LAST_BUDGET_YEAR |-> lby] :
        lky \in {CBO_YEAR_CONFIGURED.first.year, PolicyOk.LAST_KNOWN_YEAR},
        lby \in {PolicyOk.LAST_BUDGET_YEAR, CBO_YEAR_CONFIGURED.last.year + 1} }

\* rows whose only label, if any, is in column A
FirstColumnOnly(rows) ==
    { r \in rows : \A k \in 2..Len(CBO_STR_COLS) : r[k] = NaN }

SheetFrames ==
    FullFrames(LabelRows(YearLabelCells), LabelRows(CpiuLabelCells), {CpiuValues})
    \cup ShortFrames(LabelRows(YearLabelCells))

FewSheetFrames ==
    FullFrames(FirstColumnOnly(LabelRows(YearLabelCells)),
               FirstColumnOnly(LabelRows(CpiuLabelCells)), {CpiuValues})

\* every structure and file condition with a few frames, and every frame with
\* the structure as configured and the file readable
Init ==
    /\ \/ /\ CBO_YEAR \in SheetSchemas
          /\ Policy \in SheetPolicies
          /\ disk \in [readable : BOOLEAN, frame : FewSheetFrames]
       \/ /\ CBO_YEAR = CBO_YEAR_CONFIGURED
          /\ Policy = PolicyOk
          /\ disk \in [readable : {TRUE}, frame : SheetFrames]
    /\ args = IdleArgs
    /\ data = IdleData
    /\ call = NoCall
    /\ ret = NoRet
    /\ stderr = <<>>
    /\ stdout = <<>>
    /\ trace = <<>>

CallReadCheckSpreadsheet ==
    /\ call = NoCall
    /\ LET r == read_check_spreadsheet(CBO_YEAR, Policy, disk)
       IN  /\ ret' = r.ret
           /\ stderr' = r.stderr
           /\ trace' = r.trace
    /\ call' = [NoCall EXCEPT !.fn = "read_check_spreadsheet"]
    /\ UNCHANGED <<CBO_YEAR, Policy, args, disk, data, stdout>>

Next == CallReadCheckSpreadsheet

Spec == Init /\ [][Next]_vars

-----------------------------------------------------------------------------
(* Properties of read_check_spreadsheet and read_cbo_label                 *)

Validated == call.fn = "read_check_spreadsheet"

\* validation reached the labels: the structure data passed and the file was read
LabelsReached ==
    /\ Validated
    /\ \E i \in 1..Len(trace) : trace[i].op = "read_excel"
    /\ disk.readable

\* the strings of the label cells of a field's row, left to right; a row the
\* frame does not hold has no label in any column
RowStrs(cname) ==
    LET ridx == CBO_ROWS[cname].row - 1
    IN  [k \in 1..Len(CBO_STR_COLS) |->
            IF ridx \in DOMAIN disk.frame
            THEN PyStr(disk.frame[ridx][CBO_STR_COLS[k]])
            ELSE NAN_STR]

HasLabel(cname) == \E k \in 1..Len(CBO_STR_COLS) : RowStrs(cname)[k] # NAN_STR

\* the leftmost label column of the row that is not the sentinel
FirstLabelColumn(cname) ==
    CHOOSE k \in 1..Len(CBO_STR_COLS) :
        /\ RowStrs(cname)[k] # NAN_STR
        /\ \A j \in 1..(k - 1) : RowStrs(cname)[j] = NAN_STR

FoundLabel(cname) == RowStrs(cname)[FirstLabelColumn(cname)]

\* s begins, character for character, with prefix
TruePrefix(prefix, s) ==
    /\ Len(s) >= Len(prefix)
    /\ SubSeq(s, 1, Len(prefix)) = prefix

FieldMatches(cname) ==
    /\ HasLabel(cname)
    /\ TruePrefix(CBO_ROWS[cname].label, FoundLabel(cname))

\* the k-th field is the first whose label does not match
FirstFailing(k) ==
    /\ ~FieldMatches(CBO_ROW_NAMES[k])
    /\ \A j \in 1..(k - 1) : FieldMatches(CBO_ROW_NAMES[j])

LabelSteps == {i \in 1..Len(trace) : trace[i].op = "read_cbo_label"}

\* C1: read_check_spreadsheet returns the table only if every field of CBO_ROWS
\* has, at its row, a label that starts with the expected label; if a field's
\* label does not match it stops at the first such field, returns None, and
\* writes an error naming that field with the expected and the found label.
C1_AllOrNothing ==
    LabelsReached =>
        /\ ret = RetFrame =>
             \A k \in 1..Len(CBO_ROW_NAMES) : FieldMatches(CBO_ROW_NAMES[k])
        /\ \A k \in 1..Len(CBO_ROW_NAMES) :
             FirstFailing(k) =>
                /\ ret = RetNone
                /\ {trace[i].cname : i \in LabelSteps}
                     = {CBO_ROW_NAMES[j] : j \in 1..k}
                /\ Len(stderr) = 1
                /\ stderr[1].cname = CBO_ROW_NAMES[k]
                /\ stderr[1].elabel = CBO_ROWS[CBO_ROW_NAMES[k]].label
                /\ HasLabel(CBO_ROW_NAMES[k])
                /\ stderr[1].alabel = FoundLabel(CBO_ROW_NAMES[k])

\* C4: a found label is accepted only if it begins, character for character,
\* with the expected label: a label that holds the expected text elsewhere,
\* differs in case or is a near miss is rejected and validation fails.
C4_TruePrefixOnly ==
    LabelsReached =>
        \A i \in LabelSteps :
            trace[i].status = "str" =>
                LET elabel == CBO_ROWS[trace[i].cname].label
                    accepted == i < Len(trace) \/ ret = RetFrame
                IN  /\ accepted <=> TruePrefix(elabel, trace[i].label)
                    /\ ~accepted => ret = RetNone
                    /\ trace[i].label \in
                         {FoundNearMiss, FoundOtherCase, FoundInside, FoundTaxYearLower}
                         => ret = RetNone

C4_Witness ==
    /\ LabelsReached
    /\ \E i \in LabelSteps :
         trace[i].cname = "c_cpiu" /\ trace[i].label = FoundNearMiss
    /\ ret = RetNone

\* C5: when every label column of a field's row holds the sentinel, validation
\* ends as an ordinary failure: None is returned and the error names the field
\* and the expected label; no exception leaves read_check_spreadsheet.
C5_NoLabelIsFailure ==
    LabelsReached =>
        \A k \in 1..Len(CBO_ROW_NAMES) :
            (/\ FirstFailing(k)
             /\ (CBO_ROWS[CBO_ROW_NAMES[k]].row - 1) \in DOMAIN disk.frame
             /\ ~HasLabel(CBO_ROW_NAMES[k])) =>
                /\ ret = RetNone
                /\ Len(stderr) = 1
                /\ stderr[1].cname = CBO_ROW_NAMES[k]
                /\ stderr[1].elabel = CBO_ROWS[CBO_ROW_NAMES[k]].label

\* C8: the year/column consistency check runs before the spreadsheet is read,
\* and when it fails None is returned without the file being read.
C8_CheckBeforeRead ==
    Validated =>
        /\ Len(trace) >= 1 /\ trace[1].op = "check_cbo_year"
        /\ \A i \in 1..Len(trace) : trace[i].op = "read_excel" => i > 1
        /\ ~ColumnsApart(CBO_YEAR.first.col, CBO_YEAR.last.col,
                         CBO_YEAR.last.year - CBO_YEAR.first.year)
             => /\ ret = RetNone
                /\ \A i \in 1..Len(trace) : trace[i].op # "read_excel"

C8_Witness ==
    /\ Validated
    /\ CBO_YEAR.last.col = "Q"
    /\ disk.readable
    /\ ret = RetNone
    /\ \A i \in 1..Len(trace) : trace[i].op # "read_excel"

\* C10: the label read_cbo_label takes for a row is the first cell, scanning
\* the label columns left to right, that is not the sentinel: cells to its
\* right are not used, and empty cells to its left do not hide it.
C10_FirstNonEmptyLabel ==
    LabelsReached =>
        \A i \in LabelSteps :
            (CBO_ROWS[trace[i].cname].row - 1) \in DOMAIN disk.frame =>
                IF HasLabel(trace[i].cname)
                THEN /\ trace[i].status = "str"
                     /\ trace[i].label = FoundLabel(trace[i].cname)
                ELSE trace[i].status = "None"

C10_Witness ==
    /\ LabelsReached
    /\ \E i \in LabelSteps :
         /\ trace[i].cname = "c_cpiu"
         /\ RowStrs("c_cpiu")[1] = NAN_STR
         /\ RowStrs("c_cpiu")[2] = FoundLonger
         /\ RowStrs("c_cpiu")[3] = FoundNearMiss
         /\ trace[i].label = FoundLonger
    /\ ret = RetFrame

-----------------------------------------------------------------------------
(* cbo_value                                                               *)

\* "n.a.": text in a cell of a numeric column
NotAvailable == <<"n",".","a",".">>

\* cbodf.iat[ridx, cidx]
iat(cbodf, ridx, cidx) ==
    IF ridx \notin DOMAIN cbodf THEN Raise("IndexError")
    ELSE IF cidx \notin DOMAIN cbodf[ridx] THEN Raise("IndexError")
    ELSE RetCell(cbodf[ridx][cidx])

\* round(0.01 * val, 6) of a number in millionths: val / 100 to the nearest
\* millionth, a tie going to the even one
pct_value(val) ==
    CASE val.kind = "str" -> Raise("TypeError")
      [] val.kind = "nan" -> RetCell(NaN)
      [] OTHER ->
            LET q == val.n \div 100
                r == val.n % 100
            IN  RetCell(NumCell(IF r > 50 \/ (r = 50 /\ q % 2 = 1) THEN q + 1 ELSE q))

\* the messages of the argument checks of cbo_value
cbo_value_arg_msgs(cbo_year, name, year) ==
    LET m1 == IF name \notin DOMAIN CBO_ROWS
              THEN <<Msg("CBO", "name {name} not in CBO_ROWS data structure")>>
              ELSE <<>>
        m2 == IF year < cbo_year.first.year
              THEN <<Msg("CBO", "year {year} less than first year {first_year}")>>
              ELSE <<>>
        m3 == IF year > cbo_year.last.year
              THEN <<Msg("CBO", "year {year} greater than last year {last_year}")>>
              ELSE <<>>
    IN  m1 \o m2 \o m3

\* a plausible slip: the first year taken to be one column after the first column
year_letter_shifted(cbo_year, year) ==
    Chr(Ord(cbo_year.first.col) + year - cbo_year.first.year + 1)

\* convert year to column letter
year_letter(cbo_year, year) ==
    Chr(Ord(cbo_year.first.col) + year - cbo_year.first.year)

cbo_value(cbo_year, cbodf, name, year) ==
    LET msgs == cbo_value_arg_msgs(cbo_year, name, year)
    IN  IF msgs # <<>>
        THEN [ret |-> RetNone, stderr |-> msgs]
        ELSE LET row == CBO_ROWS[name].row
                 letter == year_letter(cbo_year, year)
                 val == iat(cbodf, rindex(row), cindex(letter))
             IN  IF val.how = "raise"
                 THEN [ret |-> val, stderr |-> <<>>]
                 ELSE IF "pct" \in DOMAIN CBO_ROWS[name]
                 THEN [ret |-> pct_value(val.cell), stderr |-> <<>>]
                 ELSE [ret |-> val, stderr |-> <<>>]

\* the cells of the numeric columns of the chained CPI-U row: the published
\* values, with at most one cell empty or holding text
ValueRows ==
    {CpiuValues}
    \cup { [CpiuValues EXCEPT ![k] = bad] :
             k \in 1..Len(CpiuValues), bad \in {NaN, StrCell(NotAvailable)} }

ValidLabels(label) == <<NaN, StrCell(label), NaN, NaN>>

\* frames read_check_spreadsheet returns
ValueFrames ==
    { f \in FullFrames({ValidLabels(LABEL_TAX_YEAR)},
                       {ValidLabels(LABEL_C_CPIU), ValidLabels(FoundLonger)},
                       ValueRows) :
        read_check_spreadsheet(CBO_YEAR_CONFIGURED, PolicyOk,
                               [readable |-> TRUE, frame |-> f]).ret = RetFrame }

InitValue ==
    /\ CBO_YEAR = CBO_YEAR_CONFIGURED
    /\ Policy = PolicyOk
    /\ disk \in [readable : {TRUE}, frame : ValueFrames]
    /\ args = IdleArgs
    /\ data = IdleData
    /\ call = NoCall
    /\ ret = NoRet
    /\ stderr = <<>>
    /\ stdout = <<>>
    /\ trace = <<>>

CallCboValue(name, year) ==
    /\ call = NoCall
    /\ LET r == cbo_value(CBO_YEAR, disk.frame, name, year)
       IN  /\ ret' = r.ret
           /\ stderr' = r.stderr
    /\ call' = [NoCall EXCEPT !.fn = "cbo_value", !.name = name, !.year = year]
    /\ UNCHANGED <<CBO_YEAR, Policy, args, disk, data, stdout, trace>>

NextValue ==
    \E name \in (DOMAIN CBO_ROWS) \cup {"c_cpi"},
       year \in (CBO_YEAR_CONFIGURED.first.year - YearMargin)
                  ..(CBO_YEAR_CONFIGURED.last.year + YearMargin) :
        CallCboValue(name, year)

SpecValue == InitValue /\ [][NextValue]_vars

\* the 0-based index of a column: the number of the letter in the alphabet, less one
ColumnIndex(c) == (CHOOSE i \in 1..Len(Alphabet) : Alphabet[i] = c) - 1

ValidRequest ==
    /\ call.fn = "cbo_value"
    /\ call.name \in {"year", "c_cpiu"}
    /\ CBO_YEAR.first.year <= call.year
    /\ call.year <= CBO_YEAR.last.year

\* the cell a valid request is for
RequestedCell ==
    disk.frame[CBO_ROWS[call.name].row - 1]
              [ColumnIndex(CBO_YEAR.first.col) + (call.year - CBO_YEAR.first.year)]

\* C2: on a validated table cbo_value, for a field of CBO_ROWS and a year from
\* firstYear to lastYear, returns the cell at the field's row and at column
\* index(firstColumn) + (year - firstYear): 2021 reads column E, 2034 column R;
\* for an unknown field or a year outside the range (2020, 2035) it returns
\* None and never a value.
C2_YearColumn ==
    call.fn = "cbo_value" =>
        /\ ValidRequest =>
             /\ ret = RetCell(RequestedCell)
             /\ call.year = 2021 =>
                  ret.cell = disk.frame[CBO_ROWS[call.name].row - 1][ColumnIndex("E")]
             /\ call.year = 2034 =>
                  ret.cell = disk.frame[CBO_ROWS[call.name].row - 1][ColumnIndex("R")]
        /\ ~ValidRequest => ret = RetNone /\ Len(stderr) >= 1
        /\ call.year \in {2020, 2035} => ret = RetNone

C2_Witness ==
    /\ call.fn = "cbo_value"
    /\ call.name = "c_cpiu"
    /\ call.year = 2034
    /\ ret = RetCell(NumCell(206669280))

\* C6: for a field of CBO_ROWS and a year in range, a resolved cell that is
\* not a number (text, or empty) makes the lookup fail: the content of the
\* cell is never what cbo_value returns.
C6_NonNumericFails ==
    (ValidRequest /\ RequestedCell.kind # "num") =>
        /\ ret.what # "cell"
        /\ ret = RetNone \/ ret.how = "raise"

-----------------------------------------------------------------------------
(* check_arguments and main                                                *)

check_arguments(a) ==
    IF a.empty
    THEN [rcode |-> 1,
          stderr |-> <<Msg("ERROR", "must specify CBOFILENAME command-line argument")>>]
    ELSE LET m1 == IF ~a.xlsx
                   THEN <<Msg("ERROR", "CBOFILENAME {fname} does not end with .xlsx")>>
                   ELSE <<>>
             m2 == IF ~a.exists
                   THEN <<Msg("ERROR", "CBOFILENAME {fname} does not exist")>>
                   ELSE <<>>
         IN  [rcode |-> IF m1 \o m2 # <<>> THEN 1 ELSE 0, stderr |-> m1 \o m2]

\* the six decimal places of a number of millionths
Fixed6(n) ==
    DecStr(n \div 1000000) \o <<".">>
      \o [i \in 1..6 |-> DigitChars[((n \div (10 ^ (6 - i))) % 10) + 1]]

\* f"{year}  {val:.6f}": the line, or the exception the formatting raises
format_line(year, val) ==
    CASE val.what = "None" -> [exc |-> "TypeError", line |-> <<>>]
      [] val.cell.kind = "str" -> [exc |-> "ValueError", line |-> <<>>]
      [] val.cell.kind = "nan" ->
            [exc |-> "", line |-> DecStr(year) \o <<" ", " ">> \o NAN_STR]
      [] OTHER ->
            [exc |-> "", line |-> DecStr(year) \o <<" ", " ">> \o Fixed6(val.cell.n)]

RECURSIVE print_years(_, _, _, _, _)
\* the loop of main from the given year on, after the lines in out were printed
print_years(cbo_year, cbodf, year, out, err) ==
    IF year > cbo_year.last.year
    THEN [ret |-> RetInt(0), stdout |-> out, stderr |-> err]
    ELSE LET v == cbo_value(cbo_year, cbodf, "c_cpiu", year)
         IN  IF v.ret.how = "raise"
             THEN [ret |-> v.ret, stdout |-> out, stderr |-> err \o v.stderr]
             ELSE LET f == format_line(year, v.ret)
                  IN  IF f.exc # ""
                      THEN [ret |-> Raise(f.exc), stdout |-> out,
                            stderr |-> err \o v.stderr]
                      ELSE print_years(cbo_year, cbodf, year + 1,
                                       Append(out, [year |-> year, text |-> f.line]),
                                       err \o v.stderr)

main(cbo_year, policy, a, dsk) ==
    LET ca == check_arguments(a)
        t1 == <<[Step("check_arguments") EXCEPT !.status = IF ca.rcode = 0 THEN "0" ELSE "1"]>>
    IN  IF ca.rcode # 0
        THEN [ret |-> RetInt(ca.rcode),
              stderr |-> ca.stderr \o <<Msg("USAGE", "python cbo_chained_cpiu.py CBOFILENAME [--help]")>>,
              stdout |-> <<>>, trace |-> t1]
        ELSE LET rc == read_check_spreadsheet(cbo_year, policy, dsk)
                 t2 == t1 \o rc.trace
                         \o <<[Step("read_check_spreadsheet") EXCEPT
                                 !.status = IF rc.ret.how = "raise" THEN "raise"
                                            ELSE rc.ret.what]>>
             IN  IF rc.ret.how = "raise"
                 THEN [ret |-> rc.ret, stderr |-> rc.stderr, stdout |-> <<>>, trace |-> t2]
                 ELSE IF rc.ret # RetFrame
                 THEN [ret |-> RetInt(1),
                       stderr |-> rc.stderr
                          \o <<Msg("ERROR", "CBO spreadsheet has unexpected structure")>>,
                       stdout |-> <<>>, trace |-> t2]
                 ELSE LET py == print_years(cbo_year, dsk.frame, cbo_year.first.year,
                                            <<>>, rc.stderr)
                      IN  [ret |-> py.ret, stderr |-> py.stderr, stdout |-> py.stdout,
                           trace |-> t2]

\* the file name given: none, or one with or without the .xlsx ending that
\* names or does not name a file; a file that does not exist cannot be read
MainArgs ==
    {[empty |-> TRUE, xlsx |-> FALSE, exists |-> FALSE]}
    \cup [empty : {FALSE}, xlsx : BOOLEAN, exists : BOOLEAN]

\* frames with a label in both configured rows, matching or not (rows without
\* a label are tried under Spec)
MainFrames ==
    FullFrames({ValidLabels(LABEL_TAX_YEAR)},
               {ValidLabels(LABEL_C_CPIU), ValidLabels(FoundNearMiss)},
               ValueRows)

InitMain ==
    /\ CBO_YEAR \in SheetSchemas
    /\ Policy \in SheetPolicies
    /\ args \in MainArgs
    /\ \/ /\ args.exists
          /\ disk \in [readable : {TRUE}, frame : MainFrames]
       \/ disk = IdleDisk
    /\ data = IdleData
    /\ call = NoCall
    /\ ret = NoRet
    /\ stderr = <<>>
    /\ stdout = <<>>
    /\ trace = <<>>

CallMain ==
    /\ call = NoCall
    /\ LET r == main(CBO_YEAR, Policy, args, disk)
       IN  /\ ret' = r.ret
           /\ stderr' = r.stderr
           /\ stdout' = r.stdout
           /\ trace' = r.trace
    /\ call' = [NoCall EXCEPT !.fn = "main"]
    /\ UNCHANGED <<CBO_YEAR, Policy, args, disk, data>>

NextMain == CallMain

SpecMain == InitMain /\ [][NextMain]_vars

\* argument checking passed and read_check_spreadsheet gave main a table
MainValidated ==
    /\ ~args.empty /\ args.xlsx /\ args.exists
    /\ \E i \in 1..Len(trace) :
         trace[i].op = "read_check_spreadsheet" /\ trace[i].status = "DataFrame"

\* C7: when argument checking or validation fails, main writes no year line
\* and returns a non-zero code; when validation succeeds it writes exactly one
\* line per year from firstYear to lastYear, in ascending order, and returns 0.
C7_OutputAllOrNothing ==
    call.fn = "main" =>
        /\ ~MainValidated =>
             /\ stdout = <<>>
             /\ ret.how = "return" /\ ret.what = "int" /\ ret.code # 0
        /\ MainValidated =>
             /\ Len(stdout) = CBO_YEAR.last.year - CBO_YEAR.first.year + 1
             /\ \A i \in 1..Len(stdout) : stdout[i].year = CBO_YEAR.first.year + i - 1
             /\ ret = RetInt(0)

-----------------------------------------------------------------------------
(* table14_wages                                                           *)

\* the rows table 1.4 must have
TABLE14_ROWS == 21

PUFWAGES ==
    <<<<2, 2>>, <<3, 4>>, <<5, 6>>, <<7, 8>>, <<9, 9>>, <<10, 10>>, <<11, 11>>,
      <<12, 12>>, <<13, 13>>, <<14, 14>>, <<15, 15>>, <<17, 20>>>>

CPSWAGES ==
    <<<<2, 4>>, <<5, 6>>, <<7, 8>>, <<9, 9>>, <<10, 10>>, <<11, 11>>, <<12, 12>>,
      <<13, 20>>>>

\* column.iloc[start:stop]: the rows at 0-based positions start..stop-1 that exist
iloc(column, start, stop) ==
    SubSeq(column, start + 1, IF stop < Len(column) THEN stop ELSE Len(column))

RECURSIVE column_sum(_)
\* DataFrame.sum(): the numbers added up, empty cells skipped
column_sum(cells) ==
    IF cells = <<>> THEN 0
    ELSE (IF Head(cells).kind = "num" THEN Head(cells).n ELSE 0) + column_sum(Tail(cells))

\* .astype(int) of the sum: the amounts of the table are whole numbers, and
\* the integer of a whole number is that number
astype_int(x) == x

\* a plausible slip: the slice ending at j, its end row left out
bucket_rows_open(column, i, j) == iloc(column, i, j)

\* data.iloc[i : j + 1]
bucket_rows(column, i, j) == iloc(column, i, j + 1)

RECURSIVE wage_totals(_, _, _, _)
\* the loop over indicies from its k-th pair on
wage_totals(column, indicies, k, was) ==
    IF k > Len(indicies) THEN was
    ELSE LET i == indicies[k][1]
             j == indicies[k][2]
             val == astype_int(column_sum(bucket_rows(column, i, j)))
         IN  wage_totals(column, indicies, k + 1, Append(was, val))

\* the steps of table14_wages: the assert on the row count, with what it
\* found, and the sum of one bucket
AssertStep(ok) == [Step("assert len(data) == 21") EXCEPT !.status = IF ok THEN "ok" ELSE "failed"]
SumSteps(indicies) == [k \in 1..Len(indicies) |-> Step("sum")]

\* a plausible slip: the row count asserted after the loop over the buckets
table14_wages_assert_last(column, indicies) ==
    LET was == wage_totals(column, indicies, 1, <<>>)
        ok == Len(column) = TABLE14_ROWS
    IN  [ret |-> IF ok THEN RetList(was) ELSE Raise("AssertionError"),
         trace |-> SumSteps(indicies) \o <<AssertStep(ok)>>]

table14_wages(column, indicies) ==
    IF Len(column) # TABLE14_ROWS
    THEN [ret |-> Raise("AssertionError"), trace |-> <<AssertStep(FALSE)>>]
    ELSE [ret |-> RetList(wage_totals(column, indicies, 1, <<>>)),
          trace |-> <<AssertStep(TRUE)>> \o SumSteps(indicies)]

\* the rows table14 keeps of the table it reads
TABLE14_HEAD == 21

\* table14: the table read, cut to its first rows, the other amounts taken
\* from their columns, then the wages; of the pair it returns the wages
table14(column, wage_indicies) ==
    LET head == iloc(column, 0, TABLE14_HEAD)
        w == table14_wages(head, wage_indicies)
    IN  [ret |-> w.ret,
         trace |-> <<Step("read_excel"), Step("table14_nonwages")>> \o w.trace]

WageCells == {NumCell(w) : w \in 0..MaxWage} \cup {NaN}

\* wage columns: one amount in every row but two, which hold any amount or
\* are empty; with all rows, one row short, and one row more
WageColumns ==
    { [r \in 1..len |->
          IF r = r1 THEN c1 ELSE IF r = r2 THEN c2 ELSE NumCell(base)] :
        len \in (TABLE14_ROWS - 1)..(TABLE14_ROWS + 1),
        base \in 0..MaxWage,
        r1 \in 1..TABLE14_ROWS, c1 \in WageCells,
        r2 \in 1..TABLE14_ROWS, c2 \in WageCells }

InitWages ==
    /\ CBO_YEAR = CBO_YEAR_CONFIGURED
    /\ Policy = PolicyOk
    /\ args = IdleArgs
    /\ disk = IdleDisk
    /\ data \in WageColumns
    /\ call = NoCall
    /\ ret = NoRet
    /\ stderr = <<>>
    /\ stdout = <<>>
    /\ trace = <<>>

CallTable14Wages(indicies) ==
    /\ call = NoCall
    /\ LET r == table14_wages(data, indicies)
       IN  /\ ret' = r.ret
           /\ trace' = r.trace
    /\ call' = [NoCall EXCEPT !.fn = "table14_wages", !.indicies = indicies]
    /\ UNCHANGED <<CBO_YEAR, Policy, args, disk, data, stderr, stdout>>

\* table14 called on a file whose table has the wage column data
CallTable14(wage_indicies) ==
    /\ call = NoCall
    /\ LET r == table14(data, wage_indicies)
       IN  /\ ret' = r.ret
           /\ trace' = r.trace
    /\ call' = [NoCall EXCEPT !.fn = "table14", !.indicies = wage_indicies]
    /\ UNCHANGED <<CBO_YEAR, Policy, args, disk, data, stderr, stdout>>

NextWages ==
    \E indicies \in {PUFWAGES, CPSWAGES} :
        \/ CallTable14Wages(indicies)
        \/ CallTable14(indicies)

SpecWages == InitWages /\ [][NextWages]_vars

RECURSIVE SumOfRows(_)
\* the amounts of a set of 0-based rows of the wage column, added up
SumOfRows(rows) ==
    IF rows = {} THEN 0
    ELSE LET r == CHOOSE x \in rows : TRUE
         IN  (IF data[r + 1].kind = "num" THEN data[r + 1].n ELSE 0)
               + SumOfRows(rows \ {r})

\* C9: for each bucket (i, j) of the wage-index list table14_wages returns the
\* sum of the wage column over rows i through j, both end rows counted and no
\* other row, one total per bucket in the order of the list.
C9_BucketSums ==
    (call.fn = "table14_wages" /\ Len(data) = TABLE14_ROWS) =>
        /\ ret.how = "return" /\ ret.what = "list"
        /\ Len(ret.list) = Len(call.indicies)
        /\ \A k \in 1..Len(call.indicies) :
             ret.list[k] =
               SumOfRows({r \in 0..(Len(data) - 1) :
                            call.indicies[k][1] <= r /\ r <= call.indicies[k][2]})

C9_Witness ==
    /\ call.fn = "table14_wages"
    /\ call.indicies = PUFWAGES
    /\ Len(data) = TABLE14_ROWS
    /\ data[17] = NumCell(2)
    /\ data[21] = NumCell(0)
    /\ \A r \in 1..16 \cup 18..20 : data[r] = NumCell(1)
    /\ ret.list = <<1, 2, 2, 2, 1, 1, 1, 1, 1, 1, 1, 3>>


\* the rows of the table the wage extraction works on: table14_wages is given
\* the table; table14 reads it and keeps the rows up to TABLE14_HEAD
RowsOfTable ==
    IF call.fn = "table14" /\ Len(data) > 21 THEN 21 ELSE Len(data)

SumStepsOfTrace == {i \in 1..Len(trace) : trace[i].op = "sum"}

====
